---- MODULE Spec2Model ----
(***************************************************************************)
(* Descript proxy: the webhook-forwarding handler (Variant A, POST /), the *)
(* passthrough handler (Variant B, GET|POST /api/transcript), the HTML     *)
(* meta extractors and the transcript normalizer.                          *)
(*                                                                         *)
(* Text is a sequence of one-character strings, so that trim, join and     *)
(* concatenation are computed.  An optional value (null / undefined) is a  *)
(* sequence of length 0 or 1.  A JSON scalar is a cell [k, s, n]: k is     *)
(* "absent", "str", "num" or "other" (object, array, boolean, null).       *)
(* JSON numbers are integers here.                                         *)
(***************************************************************************)
EXTENDS Integers, Sequences, FiniteSets, TLC

\* ------------------------------------------------------------------ bounds

MaxArr == 2          \* longest array in a transcript document
MaxAttrs == 3        \* most attributes in one tag
MaxTags == 2         \* most tags in one HTML page
MaxUrlLen == 2       \* most tokens after the first in a share-url input
MaxDuration == 1     \* largest elapsed time (Date.now() - startedAt)

\* --------------------------------------------------------- optional values

None == <<>>
Some(x) == <<x>>
IsSome(o) == Len(o) > 0
Get(o) == o[1]

\* ------------------------------------------------------------ JSON scalars

Absent == [k |-> "absent", s |-> <<>>, n |-> 0]
StrCell(s) == [k |-> "str", s |-> s, n |-> 0]
NumCell(n) == [k |-> "num", s |-> <<>>, n |-> n]
OtherCell == [k |-> "other", s |-> <<>>, n |-> 0]

\* --------------------------------------------------------- text primitives

WhiteSpace == {" ", "\n", "\t"}

\* String.prototype.trim() leaves nothing
IsBlank(s) == \A i \in 1..Len(s) : s[i] \in WhiteSpace

\* Boolean(p && p.trim()) for an optional string
Kept(o) == IsSome(o) /\ ~IsBlank(Get(o))

RECURSIVE JoinWith(_, _)
\* Array.prototype.join
JoinWith(strs, sep) ==
  IF Len(strs) = 0 THEN <<>>
  ELSE IF Len(strs) = 1 THEN strs[1]
  ELSE strs[1] \o sep \o JoinWith(Tail(strs), sep)

RECURSIVE KeptOnly(_)
\* .filter((p) => Boolean(p && p.trim())) over optional strings
KeptOnly(parts) ==
  IF Len(parts) = 0 THEN <<>>
  ELSE IF Kept(parts[1]) THEN <<Get(parts[1])>> \o KeptOnly(Tail(parts))
  ELSE KeptOnly(Tail(parts))

DigitChar(d) == <<"0", "1", "2", "3", "4", "5", "6", "7", "8", "9">>[d + 1]

RECURSIVE NatToString(_)
NatToString(n) ==
  IF n < 10 THEN <<DigitChar(n)>>
  ELSE NatToString(n \div 10) \o <<DigitChar(n % 10)>>

\* String(value) of an integer
NumToString(n) == IF n < 0 THEN <<"-">> \o NatToString(-n) ELSE NatToString(n)

\* .padStart(2, "0")
PadStart2(s) == IF Len(s) < 2 THEN <<"0">> \o s ELSE s

coerceToString(c) ==
  IF c.k = "str" THEN Some(c.s)
  ELSE IF c.k = "num" THEN Some(NumToString(c.n))
  ELSE None

safeJoin(parts, separator) == JoinWith(KeptOnly(parts), separator)

formatTimestampSecondsToHHMMSS(c) ==
  IF c.k # "num" THEN None
  ELSE LET totalSeconds == IF c.n < 0 THEN 0 ELSE c.n
           h == PadStart2(NatToString(totalSeconds \div 3600))
           m == PadStart2(NatToString((totalSeconds % 3600) \div 60))
           s == PadStart2(NatToString(totalSeconds % 60))
       IN Some(h \o <<":">> \o m \o <<":">> \o s)

\* ------------------------------------------------------ transcript normalizer

\* A segment / paragraph element as the loop body sees it: a non-record
\* element is replaced by {}.
ElemRecord(e) ==
  IF e.rec THEN e ELSE [e EXCEPT !.speaker = Absent, !.text = Absent,
                                 !.start = Absent, !.elements = None]

\* ts ? `[${ts}]` : undefined
TsPart(ts) == IF IsSome(ts) /\ Len(Get(ts)) > 0 THEN Some(<<"[">> \o Get(ts) \o <<"]">>) ELSE None

\* speaker ? `${speaker}:` : undefined
SpeakerPart(sp) == IF IsSome(sp) /\ Len(Get(sp)) > 0 THEN Some(Get(sp) \o <<":">>) ELSE None

LineOf(speaker, start, text) ==
  LET ts == formatTimestampSecondsToHHMMSS(start)
      linePrefix == safeJoin(<<TsPart(ts), SpeakerPart(speaker)>>, <<" ">>)
  IN safeJoin(<<Some(linePrefix), text>>, <<" ">>)

\* one segment or paragraph: speaker, text, start
SegmentLine(e) ==
  LET r == ElemRecord(e)
  IN LineOf(coerceToString(r.speaker), r.start, coerceToString(r.text))

\* elements.map(el => isRecord(el) ? coerceToString(el.value) : null)
\*         .filter(v => Boolean(v && v.trim())).join("")
ElementsText(els) ==
  JoinWith(KeptOnly([i \in 1..Len(els) |->
                       IF els[i].rec THEN coerceToString(els[i].value) ELSE None]),
           <<>>)

MonologueLine(e) ==
  LET r == ElemRecord(e)
      text == IF IsSome(r.elements) THEN Some(ElementsText(Get(r.elements))) ELSE None
  IN LineOf(coerceToString(r.speaker), r.start, text)

RECURSIVE NonEmptyOnly(_)
\* if (line) lines.push(line)
NonEmptyOnly(lines) ==
  IF Len(lines) = 0 THEN <<>>
  ELSE IF Len(lines[1]) > 0 THEN <<lines[1]>> \o NonEmptyOnly(Tail(lines))
  ELSE NonEmptyOnly(Tail(lines))

SegmentLines(arr) == NonEmptyOnly([i \in 1..Len(arr) |-> SegmentLine(arr[i])])
MonologueLines(arr) == NonEmptyOnly([i \in 1..Len(arr) |-> MonologueLine(arr[i])])

\* words.map(w => isRecord(w) ? coerceToString(w.text) : null)
\*      .filter(t => Boolean(t && t.trim())).join(" ")
WordsText(arr) ==
  JoinWith(KeptOnly([i \in 1..Len(arr) |->
                       IF arr[i].rec THEN coerceToString(arr[i].text) ELSE None]),
           <<" ">>)

\* The words branch returns as soon as `words` is an array.
WordsBranchReturns(doc) == doc.rec /\ IsSome(doc.words)

transformTranscriptJsonToText(doc) ==
  IF doc.rec /\ IsSome(doc.segments) /\ Len(SegmentLines(Get(doc.segments))) > 0
    THEN JoinWith(SegmentLines(Get(doc.segments)), <<"\n">>)
  ELSE IF doc.rec /\ IsSome(doc.monologues) /\ Len(MonologueLines(Get(doc.monologues))) > 0
    THEN JoinWith(MonologueLines(Get(doc.monologues)), <<"\n">>)
  ELSE IF doc.rec /\ IsSome(doc.paragraphs) /\ Len(SegmentLines(Get(doc.paragraphs))) > 0
    THEN JoinWith(SegmentLines(Get(doc.paragraphs)), <<"\n">>)
  ELSE IF WordsBranchReturns(doc)
    THEN WordsText(Get(doc.words))
  ELSE IF doc.rec /\ doc.text.k = "str"
    THEN doc.text.s
  ELSE <<>>

\* ------------------------------------------------------------ HTML extractors

(* A page is a sequence of tags; a tag is [name, attrs]; an attribute is       *)
(* [name, q, val]: name is its parts (<<"content">>, <<"data-", "content">>),  *)
(* q its quote ("dq" or "sq"), val its value.  Attributes are separated by     *)
(* whitespace, which \s+ and [^>]* both accept.                                *)

Sentinel == "descript:transcript"

\* the i flag: both regular expressions ignore case
Lower(s) ==
  CASE s = "META" -> "meta"
    [] s = "PROPERTY" -> "property"
    [] s = "CONTENT" -> "content"
    [] s = "DESCRIPT:TRANSCRIPT" -> "descript:transcript"
    [] OTHER -> s

\* <meta\s+
IsMetaTag(t) == Lower(t.name) = "meta"

\* the unanchored  property=["']descript:transcript["']
MatchesProperty(a) ==
  Lower(a.name[Len(a.name)]) = "property" /\ Lower(a.val) = Sentinel

\* /<meta\s+[^>]*property=["']descript:transcript["'][^>]*>/i
MetaRegexMatches(t) ==
  IsMetaTag(t) /\ \E i \in 1..Len(t.attrs) : MatchesProperty(t.attrs[i])

\* the unanchored  /content=["']([^"']+)["']/i
MatchesContent(a) == Lower(a.name[Len(a.name)]) = "content" /\ a.val # ""

\* the leftmost match: the first index whose flag is TRUE, None without one
FirstIndex(flags) ==
  IF \E i \in 1..Len(flags) : flags[i]
    THEN Some(CHOOSE i \in 1..Len(flags) : flags[i] /\ \A j \in 1..(i - 1) : ~flags[j])
  ELSE None

extractTranscriptJsonUrlFromHtml(page) ==
  LET tagMatch == FirstIndex([i \in 1..Len(page) |-> MetaRegexMatches(page[i])])
  IN IF ~IsSome(tagMatch) THEN None
     ELSE LET attrs == page[Get(tagMatch)].attrs
              contentMatch == FirstIndex([i \in 1..Len(attrs) |-> MatchesContent(attrs[i])])
          IN IF IsSome(contentMatch) THEN Some(attrs[Get(contentMatch)].val) ELSE None

\* /<meta\s+property="descript:transcript"\s+content="([^"]+)"/i :
\* property is the first attribute, content the second, both double-quoted
META_RE(t) ==
  /\ IsMetaTag(t)
  /\ Len(t.attrs) >= 2
  /\ Len(t.attrs[1].name) = 1 /\ Lower(t.attrs[1].name[1]) = "property"
  /\ t.attrs[1].q = "dq" /\ Lower(t.attrs[1].val) = Sentinel
  /\ Len(t.attrs[2].name) = 1 /\ Lower(t.attrs[2].name[1]) = "content"
  /\ t.attrs[2].q = "dq" /\ t.attrs[2].val # ""

\* html.match(META_RE)?.[1] ?? null
MetaReFirstGroup(page) ==
  LET m == FirstIndex([i \in 1..Len(page) |-> META_RE(page[i])])
  IN IF IsSome(m) THEN Some(page[Get(m)].attrs[2].val) ELSE None

\* ---------------------------------------------------------------- inputs

Attr(name, q, val) == [name |-> name, q |-> q, val |-> val]
Tag(name, attrs) == [name |-> name, attrs |-> attrs]

PropAttr == Attr(<<"property">>, "dq", Sentinel)
Content1 == Attr(<<"content">>, "dq", "u1")
Content2 == Attr(<<"content">>, "dq", "u2")
ExtraAttr == Attr(<<"name">>, "dq", "viewport")
DataContent == Attr(<<"data-", "content">>, "dq", "zz")

Attrs == {PropAttr, Content1, Content2, ExtraAttr, DataContent}

SeqsUpTo(S, n) == UNION {[1..k -> S] : k \in 0..n}

Tags == {Tag(nm, as) : nm \in {"meta", "link"}, as \in SeqsUpTo(Attrs, MaxAttrs)}
Pages == SeqsUpTo(Tags, MaxTags)

\* the pages an upstream serves in the handler specification
PageSamples ==
  { <<Tag("link", <<ExtraAttr>>)>>,
    <<Tag("meta", <<PropAttr, Content1>>)>>,
    <<Tag("meta", <<Content1, PropAttr>>)>>,
    <<Tag("meta", <<PropAttr>>)>> }

Elem(rec, speaker, text, start, elements, value) ==
  [rec |-> rec, speaker |-> speaker, text |-> text, start |-> start,
   elements |-> elements, value |-> value]

NonRecord == Elem(FALSE, Absent, Absent, Absent, None, Absent)
BlankText == Elem(TRUE, Absent, StrCell(<<" ">>), Absent, None, Absent)
FullSegment == Elem(TRUE, StrCell(<<"A">>), StrCell(<<"H", "i">>), NumCell(5), None, Absent)
ValueEl(c) == Elem(TRUE, Absent, Absent, Absent, None, c)
BlankMonologue == Elem(TRUE, Absent, Absent, Absent, Some(<<ValueEl(StrCell(<<" ">>))>>), Absent)
FullMonologue ==
  Elem(TRUE, NumCell(7), Absent, NumCell(3661),
       Some(<<ValueEl(StrCell(<<"H">>)), ValueEl(StrCell(<<"i">>))>>), Absent)
Word(c) == Elem(TRUE, Absent, c, Absent, None, Absent)

SegElems == {NonRecord, BlankText, FullSegment}
MonoElems == {NonRecord, BlankMonologue, FullMonologue}
WordElems == {NonRecord, Word(StrCell(<<" ">>)), Word(StrCell(<<"H", "i">>))}
TextCells == {Absent, OtherCell, StrCell(<<" ">>), StrCell(<<"r", "a", "w">>)}

\* an array-valued key, or None when the key is absent or not an array
OptArrays(E) == {None} \cup {Some(a) : a \in SeqsUpTo(E, MaxArr)}

Doc(rec, segments, monologues, paragraphs, words, text) ==
  [rec |-> rec, segments |-> segments, monologues |-> monologues,
   paragraphs |-> paragraphs, words |-> words, text |-> text]

NonRecordDoc == Doc(FALSE, None, None, None, None, Absent)

Docs ==
  {NonRecordDoc} \cup
  {Doc(TRUE, sg, mo, pa, wo, tx) :
     sg \in OptArrays(SegElems), mo \in OptArrays(MonoElems),
     pa \in OptArrays(SegElems), wo \in OptArrays(WordElems), tx \in TextCells}

\* the transcript documents an upstream serves in the handler specification
DocSamples ==
  { Doc(TRUE, Some(<<FullSegment>>), None, None, None, Absent),
    Doc(TRUE, None, None, None, Some(<<>>), StrCell(<<"r", "a", "w">>)),
    Doc(TRUE, None, None, None, None, StrCell(<<"r", "a", "w">>)),
    Doc(TRUE, None, None, None, None, StrCell(<<" ">>)),
    Doc(TRUE, None, None, None, None, Absent) }

SharePrefix == "https://share.descript.com/view/"
AlNum == {"a", "7"}
UrlTokens == {SharePrefix, "https://evil.example/view/", "a", "/", " "}
UrlInputs == SeqsUpTo(UrlTokens, MaxUrlLen + 1)

\* HTTP statuses an upstream or the webhook answers with
Statuses == {200, 204, 404, 500}

DescriptUrl == <<SharePrefix, "a">>
WebhookUrl == <<"https://hook.example/", "a">>

\* ----------------------------------------------------------------- state

VARIABLES
  variant,     \* which handler serves the request: "none", "A", "BGET", "BPOST"
  pc,          \* the await the handler is suspended at, "idle" or "done"
  req,         \* the incoming request
  conn,        \* per outbound target: "unsent", "awaiting", "reading", "done", "failed"
  stalled,     \* the upstream of the call in flight has gone silent
  timerArmed,  \* fetchWithTimeout's setTimeout is pending
  calls,       \* the outbound calls issued, in order
  loc,         \* the handler's locals
  resp,        \* the response to the caller (None until the handler ends)
  jsonData,    \* normalizer input
  normOut,     \* normalizer output (None until computed)
  html,        \* extractor input
  extracted    \* extractor outputs (None until computed)

handlerVars == <<variant, pc, req, conn, stalled, timerArmed, calls, loc, resp>>
pureVars == <<jsonData, normOut, html, extracted>>
vars == <<variant, pc, req, conn, stalled, timerArmed, calls, loc, resp,
          jsonData, normOut, html, extracted>>

Targets == {"share", "transcript", "webhook"}

\* OutgoingPayload / the { ok, error, transcriptUrl, transcript } body, with the
\* HTTP status; escaped marks an exception that left the handler instead
BaseResp ==
  [status |-> 0, escaped |-> FALSE, success |-> FALSE, errKind |-> "none",
   errCode |-> 0, transcript |-> None, source_url |-> None,
   transcript_json_url |-> None, processing_time |-> None, doc |-> None]

Request(bodyKind, descript_url, make_webhook_url, u, url, expand) ==
  [bodyKind |-> bodyKind, descript_url |-> descript_url,
   make_webhook_url |-> make_webhook_url, u |-> u, url |-> url, expand |-> expand]

NoRequest == Request("none", Absent, Absent, None, Absent, FALSE)

NoLocals ==
  [shareStatus |-> 0, transcriptStatus |-> 0, webhookStatus |-> 0,
   pageRead |-> FALSE, extracted |-> None,
   json |-> "none", text |-> <<>>, webhookBody |-> None]

HandlerIdle ==
  /\ variant = "none"
  /\ pc = "idle"
  /\ req = NoRequest
  /\ conn = [t \in Targets |-> "unsent"]
  /\ stalled = FALSE
  /\ timerArmed = FALSE
  /\ calls = <<>>
  /\ loc = NoLocals
  /\ resp = None

PureIdle ==
  /\ jsonData = NonRecordDoc
  /\ normOut = None
  /\ html = <<>>
  /\ extracted = None

\* Response.ok
Ok(status) == status >= 200 /\ status <= 299

\* a truthy string: x && typeof x === "string"
TruthyString(c) == c.k = "str" /\ Len(c.s) > 0

\* !x for a JSON scalar
Falsy(c) ==
  \/ c.k = "absent"
  \/ c.k = "str" /\ Len(c.s) = 0
  \/ c.k = "num" /\ c.n = 0

Respond(r) == resp' = Some(r) /\ pc' = "done"

\* an exception leaves the handler: no structured response is produced
Throw == Respond([BaseResp EXCEPT !.escaped = TRUE, !.status = 500])

\* ------------------------------------------------- Variant A: POST / handler

\* fetchWithTimeout up to its await: the timer is set, the request is sent
StartFetchWithTimeout(t) ==
  /\ calls' = Append(calls, t)
  /\ conn' = [conn EXCEPT ![t] = "awaiting"]
  /\ timerArmed' = TRUE
  /\ stalled' = FALSE

\* the finally block: clearTimeout as soon as fetch() settles
SettleFetchWithTimeout(t, state) ==
  /\ conn' = [conn EXCEPT ![t] = state]
  /\ timerArmed' = FALSE
  /\ stalled' = FALSE

ErrorA(status, kind, code, src, tju) ==
  [BaseResp EXCEPT !.status = status, !.errKind = kind, !.errCode = code,
                   !.source_url = src, !.transcript_json_url = tju]

\* body parsing and the two field checks; None when the request is accepted
ValidateA(r) ==
  IF r.bodyKind = "unparsable"
    THEN Some(ErrorA(400, "invalid_json_body", 0, None, None))
  ELSE IF r.bodyKind = "null" \/ ~TruthyString(r.descript_url)
    THEN Some(ErrorA(400, "missing_descript_url", 0, None, None))
  ELSE IF ~TruthyString(r.make_webhook_url)
    THEN Some(ErrorA(400, "missing_make_webhook_url", 0, Some(r.descript_url.s), None))
  ELSE None

RequestsA ==
  {Request("unparsable", Absent, Absent, None, Absent, FALSE),
   Request("null", Absent, Absent, None, Absent, FALSE)} \cup
  {Request("obj", d, w, None, Absent, FALSE) :
     d \in {Absent, NumCell(5), StrCell(<<>>), StrCell(DescriptUrl)},
     w \in {Absent, NumCell(5), StrCell(<<>>), StrCell(WebhookUrl)}}

A_Receive(r) ==
  /\ pc = "idle"
  /\ variant' = "A"
  /\ req' = r
  /\ IF IsSome(ValidateA(r))
       THEN /\ Respond(Get(ValidateA(r)))
            /\ UNCHANGED <<conn, stalled, timerArmed, calls>>
       ELSE /\ StartFetchWithTimeout("share")
            /\ pc' = "A_await_share"
            /\ resp' = resp
  /\ UNCHANGED <<loc, pureVars>>

SourceA == Some(req.descript_url.s)

A_ShareHeaders(status) ==
  /\ variant = "A" /\ pc = "A_await_share" /\ ~stalled
  /\ loc' = [loc EXCEPT !.shareStatus = status]
  /\ IF ~Ok(status)
       THEN /\ SettleFetchWithTimeout("share", "done")
            /\ Respond(ErrorA(502, "share_http", status, SourceA, None))
       ELSE /\ SettleFetchWithTimeout("share", "reading")
            /\ pc' = "A_read_share"
            /\ resp' = resp
  /\ UNCHANGED <<variant, req, calls, pureVars>>

\* the not-found answer sent with the upstream-failure status
NoPointerResponseA_BadGateway(src) == ErrorA(502, "no_pointer", 0, src, None)

\* the 422 of a share page without a transcript pointer
NoPointerResponseA(src) == ErrorA(422, "no_pointer", 0, src, None)

A_ShareBody(page) ==
  /\ variant = "A" /\ pc = "A_read_share" /\ ~stalled
  /\ LET transcriptJsonUrl == extractTranscriptJsonUrlFromHtml(page)
     IN /\ loc' = [loc EXCEPT !.pageRead = TRUE, !.extracted = transcriptJsonUrl]
        /\ IF ~IsSome(transcriptJsonUrl)
             THEN /\ Respond(NoPointerResponseA(SourceA))
                  /\ conn' = [conn EXCEPT !["share"] = "done"]
                  /\ UNCHANGED <<stalled, timerArmed, calls>>
             ELSE /\ calls' = Append(calls, "transcript")
                  /\ conn' = [conn EXCEPT !["share"] = "done", !["transcript"] = "awaiting"]
                  /\ timerArmed' = TRUE
                  /\ stalled' = FALSE
                  /\ pc' = "A_await_transcript"
                  /\ resp' = resp
  /\ UNCHANGED <<variant, req, pureVars>>

A_TranscriptHeaders(status) ==
  /\ variant = "A" /\ pc = "A_await_transcript" /\ ~stalled
  /\ loc' = [loc EXCEPT !.transcriptStatus = status]
  /\ IF ~Ok(status)
       THEN /\ SettleFetchWithTimeout("transcript", "done")
            /\ Respond(ErrorA(502, "transcript_http", status, SourceA, loc.extracted))
       ELSE /\ SettleFetchWithTimeout("transcript", "reading")
            /\ pc' = "A_read_transcript"
            /\ resp' = resp
  /\ UNCHANGED <<variant, req, calls, pureVars>>

\* the emptiness test without its trim()
TextIsEmpty_NoTrim(text) == Len(text) = 0

\* !transcriptText || transcriptText.trim().length === 0
TextIsEmpty(text) == Len(text) = 0 \/ IsBlank(text)

\* the payload built before the webhook call
Outgoing(text, src, tju, durationMs) ==
  [BaseResp EXCEPT !.success = TRUE, !.transcript = Some(text), !.source_url = src,
                   !.transcript_json_url = tju, !.processing_time = Some(durationMs)]

\* body is None for a body that is not valid JSON
A_TranscriptBody(body, durationMs) ==
  /\ variant = "A" /\ pc = "A_read_transcript" /\ ~stalled
  /\ IF ~IsSome(body)
       THEN /\ loc' = [loc EXCEPT !.json = "invalid"]
            /\ Respond(ErrorA(422, "transcript_parse", 0, SourceA, loc.extracted))
            /\ conn' = [conn EXCEPT !["transcript"] = "done"]
            /\ UNCHANGED <<stalled, timerArmed, calls>>
       ELSE LET transcriptText == transformTranscriptJsonToText(Get(body))
            IN IF TextIsEmpty(transcriptText)
                 THEN /\ loc' = [loc EXCEPT !.json = "valid", !.text = transcriptText]
                      /\ Respond(ErrorA(422, "no_text", 0, SourceA, loc.extracted))
                      /\ conn' = [conn EXCEPT !["transcript"] = "done"]
                      /\ UNCHANGED <<stalled, timerArmed, calls>>
                 ELSE /\ loc' = [loc EXCEPT
                                   !.json = "valid", !.text = transcriptText,
                                   !.webhookBody =
                                      Some(Outgoing(transcriptText, SourceA,
                                                    loc.extracted, durationMs))]
                      /\ calls' = Append(calls, "webhook")
                      /\ conn' = [conn EXCEPT !["transcript"] = "done",
                                              !["webhook"] = "awaiting"]
                      /\ timerArmed' = TRUE
                      /\ stalled' = FALSE
                      /\ pc' = "A_await_webhook"
                      /\ resp' = resp
  /\ UNCHANGED <<variant, req, pureVars>>

\* the outgoing payload returned whatever the webhook answered
ResponsePayload_IgnoresWebhook(outgoing, webhookOk, webhookStatus) ==
  [outgoing EXCEPT !.status = 200]

\* the response to the caller once the webhook call has settled;
\* webhookStatus is 0 when the call threw
ResponsePayload(outgoing, webhookOk, webhookStatus) ==
  IF webhookOk THEN [outgoing EXCEPT !.status = 200]
  ELSE [outgoing EXCEPT
          !.status = 200, !.success = FALSE,
          !.errKind = IF webhookStatus > 0 THEN "webhook_http" ELSE "webhook_delivery",
          !.errCode = IF webhookStatus > 0 THEN webhookStatus ELSE 0]

A_WebhookHeaders(status) ==
  /\ variant = "A" /\ pc = "A_await_webhook" /\ ~stalled
  /\ loc' = [loc EXCEPT !.webhookStatus = status]
  /\ SettleFetchWithTimeout("webhook", "done")
  /\ Respond(ResponsePayload(Get(loc.webhookBody), Ok(status), status))
  /\ UNCHANGED <<variant, req, calls, pureVars>>

\* what the handler does when an awaited fetchWithTimeout rejects
A_OnFetchRejected ==
  /\ timerArmed' = FALSE
  /\ stalled' = FALSE
  /\ IF pc = "A_await_webhook"
       THEN /\ conn' = [conn EXCEPT !["webhook"] = "failed"]
            /\ loc' = loc
            /\ Respond(ResponsePayload(Get(loc.webhookBody), FALSE, 0))
       ELSE /\ conn' = [conn EXCEPT ![calls[Len(calls)]] = "failed"]
            /\ loc' = loc
            /\ Respond(ErrorA(500, "unexpected", 0, None, None))
  /\ UNCHANGED <<variant, req, calls, pureVars>>

AwaitingA == {"A_await_share", "A_await_transcript", "A_await_webhook"}

\* fetch() rejects: DNS failure, refused connection, invalid URL
A_FetchRejects ==
  /\ variant = "A" /\ pc \in AwaitingA /\ ~stalled
  /\ A_OnFetchRejected

\* the 30 s timer fires while fetch() is pending: abort, fetch() rejects
A_TimerFires ==
  /\ variant = "A" /\ pc \in AwaitingA /\ timerArmed
  /\ A_OnFetchRejected

\* reading the body rejects: text() reaches the outer catch, json() the inner one
A_BodyReadFails ==
  /\ variant = "A" /\ pc \in {"A_read_share", "A_read_transcript"} /\ ~stalled
  /\ IF pc = "A_read_share"
       THEN /\ conn' = [conn EXCEPT !["share"] = "failed"]
            /\ loc' = loc
            /\ Respond(ErrorA(500, "unexpected", 0, None, None))
       ELSE /\ conn' = [conn EXCEPT !["transcript"] = "failed"]
            /\ loc' = [loc EXCEPT !.json = "invalid"]
            /\ Respond(ErrorA(422, "transcript_parse", 0, SourceA, loc.extracted))
  /\ UNCHANGED <<variant, req, stalled, timerArmed, calls, pureVars>>

\* ------------------------------------ Variant B: GET|POST /api/transcript

\* /^https:\/\/share\.descript\.com\/view\/[A-Za-z0-9]+$/
DESCRIPT_RE(u) ==
  Len(u) >= 2 /\ u[1] = SharePrefix /\ \A i \in 2..Len(u) : u[i] \in AlNum

RECURSIVE TrimStart(_)
TrimStart(u) == IF Len(u) > 0 /\ u[1] \in WhiteSpace THEN TrimStart(Tail(u)) ELSE u

RECURSIVE TrimEnd(_)
TrimEnd(u) ==
  IF Len(u) > 0 /\ u[Len(u)] \in WhiteSpace THEN TrimEnd(SubSeq(u, 1, Len(u) - 1)) ELSE u

\* String.prototype.trim()
Trim(u) == TrimEnd(TrimStart(u))

\* bad(msg, status)
bad(kind, code, status) ==
  [BaseResp EXCEPT !.status = status, !.errKind = kind, !.errCode = code]

\* searchParams.get('u')?.trim(); None when the parameter is missing
ShareUrlOfGet(r) == IF IsSome(r.u) THEN Some(Trim(Get(r.u))) ELSE None

\* !shareUrl || !DESCRIPT_RE.test(shareUrl)
InvalidGet(r) ==
  LET shareUrl == ShareUrlOfGet(r)
  IN ~IsSome(shareUrl) \/ Len(Get(shareUrl)) = 0 \/ ~DESCRIPT_RE(Get(shareUrl))

\* !url || !DESCRIPT_RE.test(url) on the parsed body; an unparsable body is {}
InvalidPost(r) ==
  \/ r.bodyKind = "unparsable"
  \/ Falsy(r.url)
  \/ r.url.k # "str"
  \/ ~DESCRIPT_RE(r.url.s)

RequestsGet ==
  {Request("none", Absent, Absent, u, Absent, e) :
     u \in {None} \cup {Some(x) : x \in UrlInputs}, e \in BOOLEAN}

RequestsPost ==
  {Request("unparsable", Absent, Absent, None, Absent, FALSE),
   Request("null", Absent, Absent, None, Absent, FALSE)} \cup
  {Request("obj", Absent, Absent, None, c, e) :
     c \in {Absent, NumCell(5)} \cup {StrCell(x) : x \in UrlInputs}, e \in BOOLEAN}

\* getTranscriptUrl up to its first await: a plain fetch, no timer
StartShareFetchB ==
  /\ calls' = Append(calls, "share")
  /\ conn' = [conn EXCEPT !["share"] = "awaiting"]
  /\ pc' = "B_await_share"
  /\ resp' = resp

B_ReceiveGet(r) ==
  /\ pc = "idle"
  /\ variant' = "BGET"
  /\ req' = r
  /\ IF InvalidGet(r)
       THEN /\ Respond(bad("invalid_share_url", 0, 400))
            /\ UNCHANGED <<conn, calls>>
       ELSE StartShareFetchB
  /\ UNCHANGED <<stalled, timerArmed, loc, pureVars>>

B_ReceivePost(r) ==
  /\ pc = "idle"
  /\ variant' = "BPOST"
  /\ req' = r
  /\ IF r.bodyKind = "null"
       THEN \* destructuring null throws a TypeError
            /\ Throw
            /\ UNCHANGED <<conn, calls>>
       ELSE IF InvalidPost(r)
         THEN /\ Respond(bad("invalid_share_url", 0, 400))
              /\ UNCHANGED <<conn, calls>>
         ELSE StartShareFetchB
  /\ UNCHANGED <<stalled, timerArmed, loc, pureVars>>

IsB == variant \in {"BGET", "BPOST"}

\* fetch(shareUrl) resolves; res.text() follows whatever the status
B_ShareHeaders(status) ==
  /\ IsB /\ pc = "B_await_share" /\ ~stalled
  /\ loc' = [loc EXCEPT !.shareStatus = status]
  /\ conn' = [conn EXCEPT !["share"] = "reading"]
  /\ pc' = "B_read_share"
  /\ UNCHANGED <<variant, req, stalled, timerArmed, calls, resp, pureVars>>

OkB(tju, doc) ==
  [BaseResp EXCEPT !.status = 200, !.success = TRUE,
                   !.transcript_json_url = tju, !.doc = doc]

B_ShareBody(page) ==
  /\ IsB /\ pc = "B_read_share" /\ ~stalled
  /\ LET transcriptUrl == MetaReFirstGroup(page)
     IN /\ loc' = [loc EXCEPT !.pageRead = TRUE, !.extracted = transcriptUrl]
        /\ IF ~IsSome(transcriptUrl)
             THEN /\ Respond(bad("meta_not_found", 0, 404))
                  /\ conn' = [conn EXCEPT !["share"] = "done"]
                  /\ calls' = calls
             ELSE IF ~req.expand
               THEN /\ Respond(OkB(transcriptUrl, None))
                    /\ conn' = [conn EXCEPT !["share"] = "done"]
                    /\ calls' = calls
               ELSE /\ calls' = Append(calls, "transcript")
                    /\ conn' = [conn EXCEPT !["share"] = "done",
                                            !["transcript"] = "awaiting"]
                    /\ pc' = "B_await_transcript"
                    /\ resp' = resp
  /\ UNCHANGED <<variant, req, stalled, timerArmed, pureVars>>

B_TranscriptHeaders(status) ==
  /\ IsB /\ pc = "B_await_transcript" /\ ~stalled
  /\ loc' = [loc EXCEPT !.transcriptStatus = status]
  /\ IF ~Ok(status)
       THEN /\ Respond(bad("transcript_http", status, 502))
            /\ conn' = [conn EXCEPT !["transcript"] = "done"]
       ELSE /\ conn' = [conn EXCEPT !["transcript"] = "reading"]
            /\ pc' = "B_read_transcript"
            /\ resp' = resp
  /\ UNCHANGED <<variant, req, stalled, timerArmed, calls, pureVars>>

\* await tRes.json(): nothing catches a body that is not valid JSON
B_TranscriptBody(body) ==
  /\ IsB /\ pc = "B_read_transcript" /\ ~stalled
  /\ conn' = [conn EXCEPT !["transcript"] = "done"]
  /\ IF ~IsSome(body)
       THEN /\ loc' = [loc EXCEPT !.json = "invalid"]
            /\ Throw
       ELSE /\ loc' = [loc EXCEPT !.json = "valid"]
            /\ Respond(OkB(loc.extracted, body))
  /\ UNCHANGED <<variant, req, stalled, timerArmed, calls, pureVars>>

\* fetch() or a body read rejects: nothing in Variant B catches it
B_AwaitRejects ==
  /\ IsB
  /\ pc \in {"B_await_share", "B_read_share", "B_await_transcript", "B_read_transcript"}
  /\ ~stalled
  /\ conn' = [conn EXCEPT ![calls[Len(calls)]] = "failed"]
  /\ Throw
  /\ UNCHANGED <<variant, req, stalled, timerArmed, calls, loc, pureVars>>

\* ------------------------------------------------------------- environment

InFlight == {t \in Targets : conn[t] \in {"awaiting", "reading"}}

\* the upstream of the call in flight stops sending
UpstreamStalls ==
  /\ InFlight # {}
  /\ ~stalled
  /\ stalled' = TRUE
  /\ UNCHANGED <<variant, pc, req, conn, timerArmed, calls, loc, resp, pureVars>>

\* ---------------------------------------------------------- specifications

Durations == 0..MaxDuration
Bodies == {None} \cup {Some(d) : d \in DocSamples}

Init == HandlerIdle /\ PureIdle

Next ==
  \/ \E r \in RequestsA : A_Receive(r)
  \/ \E st \in Statuses : A_ShareHeaders(st)
  \/ \E page \in PageSamples : A_ShareBody(page)
  \/ \E st \in Statuses : A_TranscriptHeaders(st)
  \/ \E b \in Bodies, d \in Durations : A_TranscriptBody(b, d)
  \/ \E st \in Statuses : A_WebhookHeaders(st)
  \/ A_FetchRejects
  \/ A_TimerFires
  \/ A_BodyReadFails
  \/ \E r \in RequestsGet : B_ReceiveGet(r)
  \/ \E r \in RequestsPost : B_ReceivePost(r)
  \/ \E st \in Statuses : B_ShareHeaders(st)
  \/ \E page \in PageSamples : B_ShareBody(page)
  \/ \E st \in Statuses : B_TranscriptHeaders(st)
  \/ \E b \in Bodies : B_TranscriptBody(b)
  \/ B_AwaitRejects
  \/ UpstreamStalls

Spec == Init /\ [][Next]_vars

\* the normalizer on every document of Docs
InitNorm ==
  /\ HandlerIdle
  /\ jsonData \in Docs
  /\ normOut = None
  /\ html = <<>>
  /\ extracted = None

Normalize ==
  /\ ~IsSome(normOut)
  /\ normOut' = Some(transformTranscriptJsonToText(jsonData))
  /\ UNCHANGED <<handlerVars, jsonData, html, extracted>>

SpecNorm == InitNorm /\ [][Normalize]_vars

\* both extractors on every page of Pages
InitExtract ==
  /\ HandlerIdle
  /\ jsonData = NonRecordDoc
  /\ normOut = None
  /\ html \in Pages
  /\ extracted = None

Extract ==
  /\ ~IsSome(extracted)
  /\ extracted' = Some([a |-> extractTranscriptJsonUrlFromHtml(html),
                        b |-> MetaReFirstGroup(html)])
  /\ UNCHANGED <<handlerVars, jsonData, normOut, html>>

SpecExtract == InitExtract /\ [][Extract]_vars

\* ------------------------------------------------------------------ claims

Done == pc = "done" /\ IsSome(resp)
R == Get(resp)
Issued(t) == \E i \in 1..Len(calls) : calls[i] = t
IsA == variant = "A"

\* C1: in Variant A, once a non-empty transcript has been extracted, the response
\* has status 200 and success = true exactly when the webhook answered 2xx; when
\* it answered non-2xx or the call threw, success = false, the error carries the
\* webhook status when one was received, and transcript, source_url,
\* transcript_json_url and processing_time are those of the outgoing payload.
C1_WebhookOutcomeDecidesSuccess ==
  (IsA /\ Done /\ IsSome(loc.webhookBody)) =>
     /\ R.status = 200
     /\ ~R.escaped
     /\ R.success <=> Ok(loc.webhookStatus)
     /\ R.success => R.errKind = "none"
     /\ (~R.success /\ loc.webhookStatus > 0) =>
           (R.errKind = "webhook_http" /\ R.errCode = loc.webhookStatus)
     /\ (~R.success /\ loc.webhookStatus = 0) => R.errKind = "webhook_delivery"
     /\ Len(loc.text) > 0
     /\ R.transcript = Some(loc.text)
     /\ R.source_url = Some(req.descript_url.s)
     /\ R.transcript_json_url = loc.extracted
     /\ IsSome(R.transcript_json_url)
     /\ R.processing_time = Get(loc.webhookBody).processing_time
     /\ IsSome(R.processing_time)

\* the webhook answered 500 and the caller got 200, success = false, the status
\* in the error, and the transcript
C1_Witness ==
  /\ IsA /\ Done /\ IsSome(loc.webhookBody)
  /\ loc.webhookStatus = 500
  /\ R.status = 200 /\ ~R.success /\ R.errCode = 500
  /\ IsSome(R.transcript)

\* the text the claim expects: the output of the first shape, in the order
\* segments, monologues, paragraphs, words, text, whose output is non-empty
ShapeOutputs(doc) ==
  IF ~doc.rec THEN <<>>
  ELSE << IF IsSome(doc.segments)
            THEN JoinWith(SegmentLines(Get(doc.segments)), <<"\n">>) ELSE <<>>,
          IF IsSome(doc.monologues)
            THEN JoinWith(MonologueLines(Get(doc.monologues)), <<"\n">>) ELSE <<>>,
          IF IsSome(doc.paragraphs)
            THEN JoinWith(SegmentLines(Get(doc.paragraphs)), <<"\n">>) ELSE <<>>,
          IF IsSome(doc.words) THEN WordsText(Get(doc.words)) ELSE <<>>,
          IF doc.text.k = "str" THEN doc.text.s ELSE <<>> >>

FirstNonEmptyShape(doc) ==
  LET outs == ShapeOutputs(doc)
      first == FirstIndex([i \in 1..Len(outs) |-> Len(outs[i]) > 0])
  IN IF IsSome(first) THEN outs[Get(first)] ELSE <<>>

\* C2: transformTranscriptJsonToText returns the output of the first shape, in
\* the order segments, monologues, paragraphs, words, bare text, that yields
\* non-empty output; a shape that is present but yields nothing is skipped, and
\* the result is empty only when no shape yields output.
C2_FirstNonEmptyShapeWins ==
  IsSome(normOut) => Get(normOut) = FirstNonEmptyShape(jsonData)

NonOk(status) == status > 0 /\ ~Ok(status)

\* C3: in both handlers a share-page or transcript fetch that completes with a
\* non-2xx status ends the request with status 502 and an error carrying that
\* status, and no further outbound call is made.
C3_UpstreamNon2xxIs502 ==
  /\ NonOk(loc.shareStatus) =>
        /\ calls = <<"share">>
        /\ Done => (R.status = 502 /\ ~R.escaped /\ R.errCode = loc.shareStatus)
  /\ NonOk(loc.transcriptStatus) =>
        /\ calls = <<"share", "transcript">>
        /\ Done => (R.status = 502 /\ ~R.escaped /\ R.errCode = loc.transcriptStatus)

\* C4: in both handlers a transcript document fetched with 2xx whose body is not
\* valid JSON ends in a structured response with status 422, and no failure of
\* any kind leaves the handler as an exception.
C4_FailuresAreStructured ==
  Done =>
     /\ ~R.escaped
     /\ (Ok(loc.transcriptStatus) /\ loc.json = "invalid") => R.status = 422

PointerNotFound == Ok(loc.shareStatus) /\ loc.pageRead /\ ~IsSome(loc.extracted)

\* C5 as stated: in both handlers a share page fetched successfully from which
\* the extractor returns not-found ends the request with status 404 and no
\* further outbound call.
C5_PointerMissingIs404 ==
  (Done /\ PointerNotFound) =>
     (R.status = 404 /\ ~R.escaped /\ calls = <<"share">>)

\* C5 as amended: in that case Variant B answers 404 and Variant A answers 422,
\* each with a structured error, and neither makes a further outbound call.
C5_PointerMissingIs404Or422 ==
  /\ PointerNotFound => calls = <<"share">>
  /\ (Done /\ PointerNotFound) =>
        /\ ~R.escaped /\ ~R.success
        /\ R.status = IF IsA THEN 422 ELSE 404
        /\ R.errKind = IF IsA THEN "no_pointer" ELSE "meta_not_found"

\* Variant A read a 200 share page without a pointer and answered 422
C5_Witness ==
  /\ IsA /\ Done /\ PointerNotFound
  /\ R.status = 422 /\ calls = <<"share">>

\* the inputs the claim calls invalid
InvalidInput ==
  \/ IsA /\ (req.bodyKind \in {"unparsable", "null"}
               \/ req.descript_url.k # "str" \/ req.make_webhook_url.k # "str")
  \/ variant = "BGET" /\ (~IsSome(req.u) \/ ~DESCRIPT_RE(Trim(Get(req.u))))
  \/ variant = "BPOST" /\ (req.bodyKind \in {"unparsable", "null"}
                             \/ req.url.k # "str" \/ ~DESCRIPT_RE(req.url.s))

\* C6: validation precedes all network activity: an Endpoint B url that is
\* missing or does not match the share-url pattern (the GET parameter as
\* trimmed), and an Endpoint A body that is unparsable or lacks a string
\* descript_url or make_webhook_url, yield status 400 and no outbound fetch.
C6_ValidationPrecedesNetwork ==
  InvalidInput =>
     /\ calls = <<>>
     /\ Done => (R.status = 400 /\ ~R.escaped)

\* a meta tag whose property attribute equals descript:transcript
Qualifying(t) ==
  t.name = "meta" /\ \E i \in 1..Len(t.attrs) :
                        t.attrs[i].name = <<"property">> /\ t.attrs[i].val = Sentinel

IsContentAttr(a) == a.name = <<"content">>

\* the content value of the first qualifying tag, None when there is no
\* qualifying tag or the first one has no content attribute
FirstQualifyingContent(page) ==
  LET q == FirstIndex([i \in 1..Len(page) |-> Qualifying(page[i])])
  IN IF ~IsSome(q) THEN None
     ELSE LET attrs == page[Get(q)].attrs
              c == FirstIndex([i \in 1..Len(attrs) |-> IsContentAttr(attrs[i])])
          IN IF IsSome(c) THEN Some(attrs[Get(c)].val) ELSE None

\* C7: for a page with a meta tag whose property is descript:transcript, the
\* property and content attributes in either order and with other attributes
\* around them, both extractors return the content value of the first such tag.
C7_ExtractorsReturnContent ==
  (IsSome(extracted) /\ IsSome(FirstQualifyingContent(html))) =>
     /\ Get(extracted).a = FirstQualifyingContent(html)
     /\ Get(extracted).b = FirstQualifyingContent(html)

IsPrefix(s, t) == Len(s) <= Len(t) /\ \A i \in 1..Len(s) : s[i] = t[i]

\* C8: within one request the outbound calls are issued in the order share
\* page, transcript JSON, webhook (Variant A only), each at most once, never two
\* in flight at once, and a call is issued only after the previous one has
\* completed with a 2xx status.
C8_SequentialAtMostOnce ==
  /\ Cardinality(InFlight) <= 1
  /\ IsPrefix(calls, <<"share", "transcript", "webhook">>)
  /\ Issued("webhook") => IsA
  /\ Len(calls) >= 2 => (conn["share"] = "done" /\ Ok(loc.shareStatus))
  /\ Len(calls) >= 3 => (conn["transcript"] = "done" /\ Ok(loc.transcriptStatus))

\* C9: in Variant A every outbound call is covered by the 30 s abort timer for
\* its whole duration, the reading of the response body included, so a call
\* whose upstream stalls is aborted and the request is never left hanging.
C9_StalledCallIsAborted ==
  (IsA /\ ~Done /\ stalled) => timerArmed

ErrorStatuses == {400, 422, 500, 502}

\* C10: in Variant A the webhook is called only after both upstream fetches
\* answered 2xx, the transcript parsed and the normalized text is non-blank; no
\* 400, 502, 422 or 500 response follows a webhook call; and the body sent to
\* the webhook has success = true and the transcript and metadata of the
\* caller's response, which differs from it only in success and error.
C10_WebhookOnlyAfterExtraction ==
  /\ Issued("webhook") =>
        /\ IsA
        /\ Ok(loc.shareStatus) /\ Ok(loc.transcriptStatus)
        /\ loc.json = "valid"
        /\ ~IsBlank(loc.text)
        /\ IsSome(loc.webhookBody)
        /\ Get(loc.webhookBody).success
        /\ Get(loc.webhookBody).errKind = "none"
        /\ Get(loc.webhookBody).transcript = Some(loc.text)
  /\ (IsA /\ Done /\ R.status \in ErrorStatuses) => ~Issued("webhook")
  /\ (IsA /\ Done /\ Issued("webhook")) =>
        [R EXCEPT !.status = 0, !.success = TRUE, !.errKind = "none", !.errCode = 0]
          = Get(loc.webhookBody)

\* the webhook was called and the caller answered
C10_Witness ==
  /\ IsA /\ Done /\ Issued("webhook")
  /\ R.status = 200
  /\ Get(loc.webhookBody).transcript = R.transcript

====
